---- MODULE Spec2Model ----
(***************************************************************************)
(* Layer stack, contacts, derived geometry and exporters of                *)
(* device_structures/hemt_structure.py (HEMTStructure and                  *)
(* AdvancedHEMTStructure).                                                 *)
(*                                                                         *)
(* Number representation.  The program's floats are modelled exactly, as   *)
(* integers in a fixed unit per quantity (rounding of IEEE doubles is not  *)
(* modelled):                                                              *)
(*   thickness, z (nm)            : units of 0.1 nm   (2 nm   = 20)        *)
(*   contact positions, dimensions: units of 0.01 um  (0.25um = 25)        *)
(*   doping_concentration (cm^-3) : units of 1e16     (5e18   = 500)       *)
(*   work_function (eV), contact_resistance (Ohm mm): units of 0.1         *)
(*   composition fractions        : units of 0.01                          *)
(* z coordinates in um written by the TCAD export are exact rationals      *)
(* [num, den] in lowest terms (thickness / 1000).                          *)
(*                                                                         *)
(* Python None is "None" in a string field and the record None elsewhere.  *)
(* An exception raised by a call is recorded by its class name in          *)
(* `raised` ("None": the call returned normally).                          *)
(***************************************************************************)
EXTENDS Integers, Sequences, FiniteSets, TLC

VARIABLES
    substrate_type,      \* HEMTStructure.substrate_type
    device_dimensions,   \* HEMTStructure.device_dimensions
    layers,              \* HEMTStructure.layers, growth order
    contacts,            \* HEMTStructure.contacts
    call,                \* the last call made on the structure, with its arguments
    written,             \* what that call left at its destination file
    raised               \* the exception class that call raised, or "None"

vars == <<substrate_type, device_dimensions, layers, contacts, call, written, raised>>

---------------------------------------------------------------------------
(* Bounds of the model and the inputs the actions draw from.               *)

MaxAddedLayers == 2
MaxAddedContacts == 1
MaxDirect == 2
MaxStack == 3

None == [None |-> TRUE]

\* One default stack with a nucleation layer and the one without.
SubstrateInputs == {"SiC", "GaN"}
\* <<thickness, layer_type, doping_type, doping_concentration>>
LayerInputs ==
    {<<10, "SUBSTRATE", "None", 0>>, <<20, "CHANNEL", "None", 1>>,
     <<30, "BARRIER", "n", 1>>, <<25, "CAP", "p", 1>>,
     <<5, "PASSIVATION", "None", 0>>,
     <<0, "CAP", "None", 0>>, <<-10, "BUFFER", "n", 1>>,
     <<10, "CAP", "n", -1>>}
PositionInputs == {<<100, 200>>, <<200, 200>>, <<300, 200>>}
\* <<thickness, doping_concentration>>; <<500, 500>> are the defaults
BackBarrierInputs == {<<500, 500>>, <<500, 0>>, <<0, 500>>, <<-10, 500>>, <<500, -1>>}

---------------------------------------------------------------------------
(* class LayerType(Enum): member name -> value                             *)

LayerType == {"SUBSTRATE", "NUCLEATION", "BUFFER", "CHANNEL", "SPACER",
              "BARRIER", "CAP", "PASSIVATION", "CONTACT"}

LayerTypeValue(member) ==
    CASE member = "SUBSTRATE" -> "substrate"
      [] member = "NUCLEATION" -> "nucleation"
      [] member = "BUFFER" -> "buffer"
      [] member = "CHANNEL" -> "channel"
      [] member = "SPACER" -> "spacer"
      [] member = "BARRIER" -> "barrier"
      [] member = "CAP" -> "cap"
      [] member = "PASSIVATION" -> "passivation"
      [] member = "CONTACT" -> "contact"

---------------------------------------------------------------------------
(* @dataclass Layer and Contact.  Layer_post_init is the exception         *)
(* __post_init__ raises for the record, "None" when it raises none.        *)

Layer(name, material, thickness, layer_type, doping_type, doping_concentration, composition) ==
    [name |-> name, material |-> material, thickness |-> thickness,
     layer_type |-> layer_type, doping_type |-> doping_type,
     doping_concentration |-> doping_concentration,
     composition |-> composition]

\* Mutant of Layer_post_init: the thickness test written < instead of <=.
Layer_post_init_strict_less(self) ==
    IF self.thickness < 0 THEN "ValueError"
    ELSE IF self.doping_concentration < 0 THEN "ValueError"
    ELSE "None"

Layer_post_init(self) ==
    IF self.thickness <= 0 THEN "ValueError"
    ELSE IF self.doping_concentration < 0 THEN "ValueError"
    ELSE "None"

Contact(name, contact_type, material, position, work_function, contact_resistance) ==
    [name |-> name, contact_type |-> contact_type, material |-> material,
     position |-> position, work_function |-> work_function,
     contact_resistance |-> contact_resistance]

\* The dataclass Contact defines no __post_init__: construction raises nothing.
Contact_init(self) == "None"

---------------------------------------------------------------------------
(* HEMTStructure.__init__ and the default structure.                       *)

DefaultDimensions ==
    [gate_length |-> 25, gate_width |-> 10000, source_drain_spacing |-> 400,
     field_plate_length |-> 50, device_length |-> 1000]

substrate_thickness(st) ==
    IF st = "SiC" THEN 3500000
    ELSE IF st = "Si" THEN 5250000
    ELSE IF st = "Sapphire" THEN 4300000
    ELSE 3000000

_build_default_structure(st) ==
    <<Layer("Substrate", st, substrate_thickness(st), "SUBSTRATE", "None", 0, None)>>
    \o (IF st # "GaN"
        THEN <<Layer("Nucleation", "AlN", 1000, "NUCLEATION", "None", 0, None)>>
        ELSE <<>>)
    \o <<Layer("Buffer1", "AlGaN", 5000, "BUFFER", "None", 0, [Al |-> 10, Ga |-> 90]),
         Layer("Buffer2", "GaN", 15000, "BUFFER", "n", 1, None),
         Layer("Channel", "GaN", 3000, "CHANNEL", "None", 1, None),
         Layer("Spacer", "AlN", 10, "SPACER", "None", 0, None),
         Layer("Barrier", "InAlN", 150, "BARRIER", "n", 500, [In |-> 17, Al |-> 83]),
         Layer("Cap", "GaN", 20, "CAP", "n", 2000, None)>>

_define_contacts(dims) ==
    LET drain_start == dims.source_drain_spacing
        gate_start == 150
        gate_end == gate_start + dims.gate_length
    IN <<Contact("Source", "ohmic", "Ti/Al/Ni/Au", <<0, 100>>, None, [val |-> 2]),
         Contact("Drain", "ohmic", "Ti/Al/Ni/Au",
                 <<drain_start, drain_start + 100>>, None, [val |-> 2]),
         Contact("Gate", "schottky", "Ni/Au", <<gate_start, gate_end>>,
                 [val |-> 51], None)>>

NoCall == [op |-> "__init__"]
NoFile == [kind |-> "nothing"]

Init ==
    /\ substrate_type \in SubstrateInputs
    /\ device_dimensions = DefaultDimensions
    /\ layers = _build_default_structure(substrate_type)
    /\ contacts = _define_contacts(device_dimensions)
    /\ call = NoCall
    /\ written = NoFile
    /\ raised = "None"

---------------------------------------------------------------------------
(* Python sequence helpers.                                                *)

\* reversed(seq)
reversed(s) == [i \in 1..Len(s) |-> s[Len(s) + 1 - i]]

\* list.insert(index, x) for 0 <= index; an index past the end appends
list_insert(s, index, x) ==
    IF index >= Len(s) THEN Append(s, x)
    ELSE SubSeq(s, 1, index) \o <<x>> \o SubSeq(s, index + 1, Len(s))

\* sum(f(e) for e in s): the generator's terms, added left to right from 0
RECURSIVE sum(_)
sum(terms) ==
    IF terms = <<>> THEN 0
    ELSE sum(SubSeq(terms, 1, Len(terms) - 1)) + terms[Len(terms)]

---------------------------------------------------------------------------
(* Aggregate queries and derived geometry of HEMTStructure.                *)

add_layer(ls, layer) == Append(ls, layer)

add_contact(cs, contact) == Append(cs, contact)

get_total_thickness(ls) ==
    sum([i \in 1..Len(ls) |-> ls[i].thickness])

get_epi_thickness(ls) ==
    LET epi == SelectSeq(ls, LAMBDA layer : layer.layer_type # "SUBSTRATE")
    IN sum([i \in 1..Len(epi) |-> epi[i].thickness])

\* The loop of get_layer_boundaries over rest = what reversed(layers) still
\* yields, with the running z and the list built so far.
RECURSIVE boundaries_loop(_, _, _)
boundaries_loop(rest, z, boundaries) ==
    IF rest = <<>> THEN boundaries
    ELSE LET layer == Head(rest)
         IN IF layer.layer_type # "SUBSTRATE"
            THEN boundaries_loop(Tail(rest), z + layer.thickness,
                                 Append(boundaries, z + layer.thickness))
            ELSE boundaries_loop(Tail(rest), z, boundaries)

\* Mutant of get_layer_boundaries: the walk made bottom-up, without reversed().
get_layer_boundaries_bottom_up(ls) == boundaries_loop(ls, 0, <<0>>)

get_layer_boundaries(ls) == boundaries_loop(reversed(ls), 0, <<0>>)

\* The loop of get_2deg_position; 15 is the 1.5 nm added below the barrier.
RECURSIVE two_deg_loop(_, _)
two_deg_loop(rest, z) ==
    IF rest = <<>> THEN z
    ELSE LET layer == Head(rest)
         IN IF layer.layer_type = "CAP"
            THEN two_deg_loop(Tail(rest), z + layer.thickness)
            ELSE IF layer.layer_type = "BARRIER"
            THEN z + layer.thickness + 15
            ELSE two_deg_loop(Tail(rest), z)

\* Mutant of get_2deg_position: the loop without its break.
RECURSIVE two_deg_loop_no_break(_, _)
two_deg_loop_no_break(rest, z) ==
    IF rest = <<>> THEN z
    ELSE LET layer == Head(rest)
         IN IF layer.layer_type = "CAP"
            THEN two_deg_loop_no_break(Tail(rest), z + layer.thickness)
            ELSE IF layer.layer_type = "BARRIER"
            THEN two_deg_loop_no_break(Tail(rest), z + layer.thickness + 15)
            ELSE two_deg_loop_no_break(Tail(rest), z)

get_2deg_position_no_break(ls) == two_deg_loop_no_break(reversed(ls), 0)

get_2deg_position(ls) == two_deg_loop(reversed(ls), 0)

---------------------------------------------------------------------------
(* Exact arithmetic for the um coordinates of the TCAD export.             *)

RECURSIVE gcd(_, _)
gcd(a, b) == IF b = 0 THEN a ELSE gcd(b, a % b)

\* num/den in lowest terms
Rat(num, den) ==
    LET g == gcd(num, den)
    IN IF num = 0 THEN [num |-> 0, den |-> 1]
       ELSE [num |-> num \div g, den |-> den \div g]

RatAdd(p, q) == Rat(p.num * q.den + q.num * p.den, p.den * q.den)

\* layer.thickness / 1000: nm to um (a thickness t stands for t/10 nm)
thickness_um(thickness) == Rat(thickness, 10000)

---------------------------------------------------------------------------
(* f'{x:.2e}' of a doping concentration c > 0 (c stands for c * 1e16):     *)
(* three significant digits, round half to even, and the decimal exponent. *)

RECURSIVE digits(_)
digits(c) == IF c < 10 THEN 1 ELSE 1 + digits(c \div 10)

RECURSIVE pow10(_)
pow10(k) == IF k = 0 THEN 1 ELSE 10 * pow10(k - 1)

format_2e(c) ==
    LET k == digits(c)
        scale == IF k > 3 THEN pow10(k - 3) ELSE 1
        q == IF k > 3 THEN c \div scale ELSE c * pow10(3 - k)
        r == IF k > 3 THEN c % scale ELSE 0
        up == \/ 2 * r > scale
              \/ (2 * r = scale /\ q % 2 = 1)
        m == IF up THEN q + 1 ELSE q
    IN IF m = 1000 THEN [mantissa |-> 100, exponent |-> 16 + k]
       ELSE [mantissa |-> m, exponent |-> 16 + k - 1]

---------------------------------------------------------------------------
(* export_sentaurus_structure: the script as the sequence of declarations  *)
(* written.  The material declarations come out in the iteration order of  *)
(* a Python set, which is unspecified: they are one block holding the set. *)

\* The regions loop over what enumerate(reversed(layers)) still yields,
\* i the index of Head(rest), with the running z_top and the records so far.
RECURSIVE regions_loop(_, _, _, _, _)
regions_loop(rest, i, z_top, dims, out) ==
    IF rest = <<>> THEN out
    ELSE LET layer == Head(rest)
             z_bottom == RatAdd(z_top, thickness_um(layer.thickness))
         IN IF layer.layer_type # "SUBSTRATE"
            THEN regions_loop(Tail(rest), i + 1, z_bottom, dims,
                     Append(out,
                         [kind |-> "region", index |-> i,
                          z_top |-> z_top, z_bottom |-> z_bottom,
                          length |-> dims.device_length,
                          width |-> dims.gate_width,
                          name |-> layer.name, material |-> layer.material]))
            ELSE regions_loop(Tail(rest), i + 1, z_top, dims, out)

\* Mutant of sentaurus_regions: the layers walked bottom-up, without reversed().
sentaurus_regions_bottom_up(ls, dims) ==
    regions_loop(ls, 0, Rat(0, 1), dims, <<>>)

sentaurus_regions(ls, dims) ==
    regions_loop(reversed(ls), 0, Rat(0, 1), dims, <<>>)

RECURSIVE doping_loop(_, _, _)
doping_loop(ls, i, out) ==
    IF i >= Len(ls) THEN out
    ELSE LET layer == ls[i + 1]
             doping_type == IF layer.doping_type = "n" THEN "donor" ELSE "acceptor"
         IN IF layer.doping_concentration > 0
            THEN doping_loop(ls, i + 1,
                     Append(out,
                         [kind |-> "doping", index |-> i, name |-> layer.name,
                          doping_type |-> doping_type,
                          concentration |-> format_2e(layer.doping_concentration)]))
            ELSE doping_loop(ls, i + 1, out)

\* Mutant of sentaurus_doping: the concentration test written >= 0.
RECURSIVE doping_loop_nonneg(_, _, _)
doping_loop_nonneg(ls, i, out) ==
    IF i >= Len(ls) THEN out
    ELSE LET layer == ls[i + 1]
             doping_type == IF layer.doping_type = "n" THEN "donor" ELSE "acceptor"
         IN IF layer.doping_concentration >= 0
            THEN doping_loop_nonneg(ls, i + 1,
                     Append(out,
                         [kind |-> "doping", index |-> i, name |-> layer.name,
                          doping_type |-> doping_type,
                          concentration |-> format_2e(layer.doping_concentration)]))
            ELSE doping_loop_nonneg(ls, i + 1, out)

sentaurus_doping_nonneg(ls) == doping_loop_nonneg(ls, 0, <<>>)

sentaurus_doping(ls) == doping_loop(ls, 0, <<>>)

sentaurus_contacts(cs) ==
    [i \in 1..Len(cs) |->
        [kind |-> "contact", name |-> cs[i].name,
         material |-> cs[i].material, contact_type |-> cs[i].contact_type]]

sentaurus_script(ls, cs, dims) ==
    <<[kind |-> "comment", text |-> "# Sentaurus Structure Editor Script"],
      [kind |-> "comment", text |-> "# InGaN/GaN HEMT Structure"],
      [kind |-> "comment", text |-> "# Material definitions"],
      [kind |-> "materials",
       names |-> {ls[i].material : i \in 1..Len(ls)}],
      [kind |-> "comment", text |-> "# Create regions"]>>
    \o sentaurus_regions(ls, dims)
    \o <<[kind |-> "comment", text |-> "# Doping profiles"]>>
    \o sentaurus_doping(ls)
    \o <<[kind |-> "comment", text |-> "# Contact definitions"]>>
    \o sentaurus_contacts(cs)

---------------------------------------------------------------------------
(* export_python_mesh: structure_dict, and json.dump of it.  json.dump     *)
(* writes None as null and a tuple as an array.                            *)

JsonNull == [null |-> TRUE]

json_optional(v) == IF v = None THEN JsonNull ELSE v

json_optional_str(v) == IF v = "None" THEN "null" ELSE v

json_array(t) == [array |-> t]

\* Mutant of layer_dict: the optional composition left out of the record.
layer_dict_without_composition(layer) ==
    [name |-> layer.name,
     material |-> layer.material,
     thickness |-> layer.thickness,
     type |-> LayerTypeValue(layer.layer_type),
     doping_type |-> layer.doping_type,
     doping_concentration |-> layer.doping_concentration]

layer_dict(layer) ==
    [name |-> layer.name,
     material |-> layer.material,
     thickness |-> layer.thickness,
     type |-> LayerTypeValue(layer.layer_type),
     doping_type |-> layer.doping_type,
     doping_concentration |-> layer.doping_concentration,
     composition |-> layer.composition]

contact_dict(contact) ==
    [name |-> contact.name,
     type |-> contact.contact_type,
     material |-> contact.material,
     position |-> contact.position,
     work_function |-> contact.work_function,
     contact_resistance |-> contact.contact_resistance]

structure_dict(st, dims, ls, cs) ==
    [substrate_type |-> st,
     dimensions |-> dims,
     layers |-> [i \in 1..Len(ls) |-> layer_dict(ls[i])],
     contacts |-> [i \in 1..Len(cs) |-> contact_dict(cs[i])]]

json_dump_layer(d) ==
    [d EXCEPT !.doping_type = json_optional_str(@),
              !.composition = json_optional(@)]

json_dump_contact(d) ==
    [d EXCEPT !.position = json_array(@),
              !.work_function = json_optional(@),
              !.contact_resistance = json_optional(@)]

json_dump(d) ==
    [d EXCEPT !.layers = [i \in 1..Len(@) |-> json_dump_layer(@[i])],
              !.contacts = [i \in 1..Len(@) |-> json_dump_contact(@[i])]]

export_python_mesh(st, dims, ls, cs) == json_dump(structure_dict(st, dims, ls, cs))

---------------------------------------------------------------------------
(* The operations.  Each is the whole call as its caller sees it: the      *)
(* arguments are evaluated first, so a Layer(...) argument that raises     *)
(* leaves the method uncalled.  cap bounds the length of the stack.  Only  *)
(* the exports write a file.                                               *)

\* structure.add_layer(Layer(...))
AddLayer(cap, name, material, thickness, layer_type, doping_type, doping_concentration, composition) ==
    LET layer == Layer(name, material, thickness, layer_type, doping_type,
                       doping_concentration, composition)
        exc == Layer_post_init(layer)
    IN /\ call' = [op |-> "add_layer", layer |-> layer]
       /\ raised' = exc
       /\ IF exc # "None"
          THEN UNCHANGED layers
          ELSE /\ Len(layers) < cap
               /\ layers' = add_layer(layers, layer)
       /\ written' = NoFile
       /\ UNCHANGED <<substrate_type, device_dimensions, contacts>>

\* structure.add_contact(Contact(...))
AddContact(name, contact_type, material, position, work_function, contact_resistance) ==
    LET contact == Contact(name, contact_type, material, position,
                           work_function, contact_resistance)
        exc == Contact_init(contact)
    IN /\ call' = [op |-> "add_contact", contact |-> contact]
       /\ raised' = exc
       /\ IF exc # "None"
          THEN UNCHANGED contacts
          ELSE /\ Len(contacts) < Len(_define_contacts(device_dimensions))
                                    + MaxAddedContacts
               /\ contacts' = add_contact(contacts, contact)
       /\ written' = NoFile
       /\ UNCHANGED <<substrate_type, device_dimensions, layers>>

\* Mutant of channel_idx: the last channel instead of the first.
channel_idx_last(ls) ==
    LET found == {i \in 0..(Len(ls) - 1) : ls[i + 1].layer_type = "CHANNEL"}
    IN IF found = {} THEN -1
       ELSE CHOOSE i \in found : \A j \in found : i >= j

\* next(i for i, layer in enumerate(layers) if layer.layer_type == CHANNEL):
\* the 0-based index of the first channel, or -1 for StopIteration
channel_idx(ls) ==
    LET found == {i \in 0..(Len(ls) - 1) : ls[i + 1].layer_type = "CHANNEL"}
    IN IF found = {} THEN -1
       ELSE CHOOSE i \in found : \A j \in found : i <= j

\* What add_back_barrier raises and the stack it leaves.
add_back_barrier(ls, thickness, doping_concentration) ==
    LET idx == channel_idx(ls)
        back_barrier == Layer("BackBarrier", "AlGaN", thickness, "BUFFER", "p",
                              doping_concentration, [Al |-> 5, Ga |-> 95])
        exc == Layer_post_init(back_barrier)
    IN IF idx = -1 THEN [raised |-> "StopIteration", layers |-> ls]
       ELSE IF exc # "None" THEN [raised |-> exc, layers |-> ls]
       ELSE [raised |-> "None", layers |-> list_insert(ls, idx + 1, back_barrier)]

\* adv_hemt.add_back_barrier(thickness, doping_concentration)
AddBackBarrier(cap, thickness, doping_concentration) ==
    LET r == add_back_barrier(layers, thickness, doping_concentration)
    IN /\ call' = [op |-> "add_back_barrier", thickness |-> thickness,
                   doping_concentration |-> doping_concentration]
       /\ raised' = r.raised
       /\ r.raised = "None" => Len(layers) < cap
       /\ layers' = r.layers
       /\ written' = NoFile
       /\ UNCHANGED <<substrate_type, device_dimensions, contacts>>

\* What the file system does to one export: "ok", "open_fails" (open()
\* raises, no file object exists) or "write_fails" (a write inside the with
\* block raises after open() truncated the file).
IoOutcomes == {"ok", "open_fails", "write_fails"}

\* The exception the file system raises for an outcome.
io_error(io) ==
    IF io = "ok" THEN "None"
    ELSE IF io = "open_fails" THEN "PermissionError"
    ELSE "OSError"

\* Mutant of write_file: f = open(...) without the with statement, so a
\* failing write leaves the file object open.
write_file_without_with(io, kind, content) ==
    IF io = "ok"
    THEN [raised |-> "None",
          file |-> [kind |-> kind, content |-> content, closed |-> TRUE]]
    ELSE IF io = "open_fails"
    THEN [raised |-> io_error(io), file |-> NoFile]
    ELSE [raised |-> io_error(io), file |-> [kind |-> "partial", closed |-> FALSE]]

\* with open(filename, 'w') as f: <body>.  The file object's __exit__ closes
\* it when the body ends and when the body raises; neither export has an
\* except clause, so the exception leaves the call as it was raised.  A
\* failed write leaves a prefix of the output in the file.
write_file(io, kind, content) ==
    IF io = "ok"
    THEN [raised |-> "None",
          file |-> [kind |-> kind, content |-> content, closed |-> TRUE]]
    ELSE IF io = "open_fails"
    THEN [raised |-> io_error(io), file |-> NoFile]
    ELSE [raised |-> io_error(io), file |-> [kind |-> "partial", closed |-> TRUE]]

ExportSentaurusStructure(io) ==
    /\ call' = [op |-> "export_sentaurus_structure", io |-> io]
    /\ LET w == write_file(io, "sentaurus",
                          sentaurus_script(layers, contacts, device_dimensions))
       IN /\ raised' = w.raised
          /\ written' = w.file
    /\ UNCHANGED <<substrate_type, device_dimensions, layers, contacts>>

ExportPythonMesh(io) ==
    /\ call' = [op |-> "export_python_mesh", io |-> io]
    /\ LET w == write_file(io, "json",
                  export_python_mesh(substrate_type, device_dimensions,
                                     layers, contacts))
       IN /\ raised' = w.raised
          /\ written' = w.file
    /\ UNCHANGED <<substrate_type, device_dimensions, layers, contacts>>

\* The stack may grow by MaxAddedLayers layers past the default structure.
DefaultCap == Len(_build_default_structure(substrate_type)) + MaxAddedLayers

Next ==
    \/ \E input \in LayerInputs :
          AddLayer(DefaultCap, "Extra", "SiN", input[1], input[2], input[3],
                   input[4], None)
    \/ \E position \in PositionInputs :
          AddContact("FieldPlate", "schottky", "Ni/Au", position,
                     [val |-> 51], None)
    \/ \E input \in BackBarrierInputs :
          AddBackBarrier(DefaultCap, input[1], input[2])
    \/ \E io \in IoOutcomes : ExportSentaurusStructure(io)
    \/ \E io \in IoOutcomes : ExportPythonMesh(io)

\* A structure built by default construction and then extended.
Spec == Init /\ [][Next]_vars

---------------------------------------------------------------------------
(* Structures whose layer list is the default one or was built by the      *)
(* caller directly: `layers` is a public list attribute, so any sequence   *)
(* of constructed (hence validated) Layer objects can be the stack, the    *)
(* empty one included.  Here the stack grows to MaxStack layers.           *)

DirectLayers ==
    {layer \in {Layer("Extra", "SiN", input[1], input[2], input[3], input[4], None) :
                    input \in LayerInputs} :
        Layer_post_init(layer) = "None"}

InitStacks ==
    /\ substrate_type \in SubstrateInputs
    /\ device_dimensions = DefaultDimensions
    /\ \/ layers = _build_default_structure(substrate_type)
       \/ /\ substrate_type = "SiC"
          /\ \E n \in 0..MaxDirect : layers \in [1..n -> DirectLayers]
    /\ contacts = _define_contacts(device_dimensions)
    /\ call = NoCall
    /\ written = NoFile
    /\ raised = "None"

NextStacks ==
    \/ \E input \in LayerInputs :
          AddLayer(MaxStack, "Extra", "SiN", input[1], input[2], input[3],
                   input[4], None)
    \/ \E position \in PositionInputs :
          AddContact("FieldPlate", "schottky", "Ni/Au", position,
                     [val |-> 51], None)
    \/ \E input \in BackBarrierInputs :
          AddBackBarrier(MaxStack, input[1], input[2])
    \/ \E io \in IoOutcomes : ExportSentaurusStructure(io)
    \/ \E io \in IoOutcomes : ExportPythonMesh(io)

SpecStacks == InitStacks /\ [][NextStacks]_vars

---------------------------------------------------------------------------
(* Vocabulary of the properties.                                           *)

\* The specification's ValidationError: the class the code raises for an
\* argument that violates a numeric invariant.
ValidationError == "ValueError"

\* Python's LookupError and its built-in subclasses.
LookupError == {"LookupError", "IndexError", "KeyError"}

HasType(ls, t) == \E i \in 1..Len(ls) : ls[i].layer_type = t

\* The position (from 1) of the first layer of type t.
FirstOfType(ls, t) ==
    CHOOSE p \in 1..Len(ls) :
        /\ ls[p].layer_type = t
        /\ \A q \in 1..(p - 1) : ls[q].layer_type # t

---------------------------------------------------------------------------
(* C1.  Constructing a Contact whose position has x_start >= x_end fails   *)
(* with a ValidationError, so every contact of the contact list has        *)
(* x_start < x_end.                                                        *)
C1_DegenerateContactRejected ==
    /\ (/\ call.op = "add_contact"
        /\ call.contact.position[1] >= call.contact.position[2])
       => raised = ValidationError
    /\ \A i \in 1..Len(contacts) :
          contacts[i].position[1] < contacts[i].position[2]

(* C2.  Constructing a Layer raises ValidationError exactly when           *)
(* thickness <= 0 or doping_concentration < 0 (so not for a positive       *)
(* thickness with doping_concentration = 0), and every layer of the stack  *)
(* has thickness > 0 and doping_concentration >= 0.                        *)
C2_LayerValidation ==
    /\ call.op = "add_layer" =>
          (raised = ValidationError
             <=> (call.layer.thickness <= 0 \/ call.layer.doping_concentration < 0))
    /\ (call.op = "add_back_barrier" /\ raised # "StopIteration") =>
          (raised = ValidationError
             <=> (call.thickness <= 0 \/ call.doping_concentration < 0))
    /\ \A i \in 1..Len(layers) :
          layers[i].thickness > 0 /\ layers[i].doping_concentration >= 0

\* An undoped layer of positive thickness was accepted by add_layer, after
\* which a Layer of thickness 0 was refused.
C2_Witness ==
    /\ call.op = "add_layer"
    /\ call.layer.thickness = 0
    /\ raised = "ValueError"
    /\ \E i \in 1..Len(layers) :
          /\ layers[i].name = "Extra"
          /\ layers[i].doping_concentration = 0

(* C3.  After default construction and any add_layer / add_back_barrier    *)
(* calls the stack holds at most one SUBSTRATE layer, and it is the first  *)
(* element.                                                                *)
C3_SingleSubstrateFirst ==
    \A i \in 1..Len(layers) : layers[i].layer_type = "SUBSTRATE" => i = 1

(* C4.  A successful add_back_barrier on a stack with a CHANNEL layer      *)
(* lengthens the stack by one, puts the new layer right after the first    *)
(* CHANNEL layer and keeps every other layer in its relative order.        *)
C4_InsertAfterFirstChannel ==
    [][(/\ call'.op = "add_back_barrier"
        /\ raised' = "None"
        /\ HasType(layers, "CHANNEL"))
       => LET p == FirstOfType(layers, "CHANNEL")
          IN /\ Len(layers') = Len(layers) + 1
             /\ layers'[p + 1] =
                   Layer("BackBarrier", "AlGaN", call'.thickness, "BUFFER", "p",
                         call'.doping_concentration, [Al |-> 5, Ga |-> 95])
             /\ \A i \in 1..p : layers'[i] = layers[i]
             /\ \A i \in (p + 1)..Len(layers) : layers'[i + 1] = layers[i]]_vars

\* add_back_barrier has just succeeded on a stack with two CHANNEL layers.
C4_Witness ==
    /\ call.op = "add_back_barrier"
    /\ raised = "None"
    /\ \E i, j \in 1..Len(layers) :
          /\ i < j
          /\ layers[i].layer_type = "CHANNEL"
          /\ layers[j].layer_type = "CHANNEL"
          /\ layers[i + 1].name = "BackBarrier"
          /\ \A q \in 1..(i - 1) : layers[q].layer_type # "CHANNEL"

(* C5.  add_back_barrier on a stack without a CHANNEL layer fails with a   *)
(* LookupError and leaves the stack as it was.                             *)
C5_MissingChannelLookupError ==
    [][(call'.op = "add_back_barrier" /\ ~HasType(layers, "CHANNEL"))
       => (raised' \in LookupError /\ layers' = layers)]_vars

---------------------------------------------------------------------------
(* The non-substrate layers, counted from the top of the stack.            *)

NonSubstrate(ls) == {i \in 1..Len(ls) : ls[i].layer_type # "SUBSTRATE"}

\* How many non-substrate layers lie at or above position i.
RankFromTop(ls, i) == Cardinality({j \in NonSubstrate(ls) : j >= i})

\* The positions of the k topmost non-substrate layers.
Topmost(ls, k) == {i \in NonSubstrate(ls) : RankFromTop(ls, i) <= k}

\* The position of the k-th non-substrate layer from the top.
KthFromTop(ls, k) == CHOOSE i \in NonSubstrate(ls) : RankFromTop(ls, i) = k

\* The summed thickness of the layers at the positions in I.
RECURSIVE ThicknessOf(_, _)
ThicknessOf(ls, I) ==
    IF I = {} THEN 0
    ELSE LET i == CHOOSE x \in I : TRUE
         IN ls[i].thickness + ThicknessOf(ls, I \ {i})

(* C6.  get_layer_boundaries() has one element more than there are         *)
(* non-substrate layers, starts with 0, is non-decreasing, and its k-th    *)
(* element after the first is the summed thickness of the k topmost        *)
(* non-substrate layers; with no non-substrate layer it is [0] and         *)
(* get_epi_thickness() is 0.                                               *)
C6_Boundaries ==
    LET b == get_layer_boundaries(layers)
        n == Cardinality(NonSubstrate(layers))
    IN /\ Len(b) = n + 1
       /\ b[1] = 0
       /\ \A k \in 1..n : b[k] <= b[k + 1]
       /\ \A k \in 1..n : b[k + 1] = ThicknessOf(layers, Topmost(layers, k))
       /\ n = 0 => (b = <<0>> /\ get_epi_thickness(layers) = 0)

\* A caller-built stack with its substrate first, grown by add_back_barrier
\* to two non-substrate layers of different thickness.
C6_Witness ==
    /\ call.op = "add_back_barrier"
    /\ raised = "None"
    /\ Len(layers) = 3
    /\ layers[1].layer_type = "SUBSTRATE"
    /\ layers[2].thickness # layers[3].thickness
    /\ get_layer_boundaries(layers) =
          <<0, layers[3].thickness, layers[3].thickness + layers[2].thickness>>

(* C7.  get_2deg_position() is, when the stack has a BARRIER layer, the    *)
(* thickness of the CAP layers above the topmost BARRIER plus that         *)
(* BARRIER's thickness plus 1.5 nm, nothing at or below the barrier and no *)
(* other layer type counting; without a BARRIER it is the thickness of all *)
(* CAP layers.  For the default structure it is 18.5 nm.                   *)
C7_TwoDegOffset ==
    LET barriers == {i \in 1..Len(layers) : layers[i].layer_type = "BARRIER"}
        caps == {i \in 1..Len(layers) : layers[i].layer_type = "CAP"}
        top == CHOOSE i \in barriers : \A j \in barriers : j <= i
    IN /\ barriers # {} =>
             get_2deg_position(layers) =
                ThicknessOf(layers, {i \in caps : i > top})
                   + layers[top].thickness + 15
       /\ barriers = {} => get_2deg_position(layers) = ThicknessOf(layers, caps)
       /\ layers = _build_default_structure(substrate_type) =>
             get_2deg_position(layers) = 185

\* A CAP layer below a BARRIER layer below a CAP layer, the last one added
\* by add_layer.
C7_Witness ==
    /\ call.op = "add_layer"
    /\ raised = "None"
    /\ \E i, j, k \in 1..Len(layers) :
          /\ i < j /\ j < k
          /\ layers[i].layer_type = "CAP"
          /\ layers[j].layer_type = "BARRIER"
          /\ layers[k].layer_type = "CAP"

(* C8.  get_total_thickness() equals the substrate layer's thickness plus  *)
(* get_epi_thickness().                                                    *)
C8_TotalIsSubstratePlusEpi ==
    \E i \in 1..Len(layers) :
       /\ layers[i].layer_type = "SUBSTRATE"
       /\ get_total_thickness(layers) =
             layers[i].thickness + get_epi_thickness(layers)

---------------------------------------------------------------------------
(* Reading the interchange document back: what a consumer does with the    *)
(* parsed JSON to rebuild the Layer and Contact records (JSON null is      *)
(* None, the 'type' string names the LayerType member, the position array  *)
(* is the position tuple).                                                 *)

from_json_optional(v) == IF v = JsonNull THEN None ELSE v

from_json_optional_str(v) == IF v = "null" THEN "None" ELSE v

LayerTypeOfValue(value) == CHOOSE m \in LayerType : LayerTypeValue(m) = value

Layer_from_json(d) ==
    Layer(d.name, d.material, d.thickness, LayerTypeOfValue(d.type),
          from_json_optional_str(d.doping_type), d.doping_concentration,
          from_json_optional(d.composition))

Contact_from_json(d) ==
    Contact(d.name, d.type, d.material, d.position.array,
            from_json_optional(d.work_function),
            from_json_optional(d.contact_resistance))

LayerKeys == {"name", "material", "thickness", "type", "doping_type",
              "doping_concentration", "composition"}

ContactKeys == {"name", "type", "material", "position", "work_function",
                "contact_resistance"}

(* C9.  The document export_python_mesh writes holds one record per Layer  *)
(* and per Contact in stack order, each with every field (an absent        *)
(* optional as an explicit null), from which the Layer and Contact records *)
(* are rebuilt field for field; it holds no derived geometry.              *)
C9_JsonRoundTrip ==
    (call.op = "export_python_mesh" /\ raised = "None") =>
       LET doc == written.content
       IN /\ written.kind = "json"
          /\ DOMAIN doc = {"substrate_type", "dimensions", "layers", "contacts"}
          /\ Len(doc.layers) = Len(layers)
          /\ Len(doc.contacts) = Len(contacts)
          /\ \A i \in 1..Len(layers) :
                /\ DOMAIN doc.layers[i] = LayerKeys
                /\ layers[i].composition = None
                      => doc.layers[i].composition = JsonNull
                /\ layers[i].doping_type = "None"
                      => doc.layers[i].doping_type = "null"
                /\ Layer_from_json(doc.layers[i]) = layers[i]
          /\ \A i \in 1..Len(contacts) :
                /\ DOMAIN doc.contacts[i] = ContactKeys
                /\ contacts[i].work_function = None
                      => doc.contacts[i].work_function = JsonNull
                /\ contacts[i].contact_resistance = None
                      => doc.contacts[i].contact_resistance = JsonNull
                /\ Contact_from_json(doc.contacts[i]) = contacts[i]

\* The export has just completed for a structure extended by a back barrier
\* (with a composition) and an added contact.
C9_Witness ==
    /\ call.op = "export_python_mesh"
    /\ raised = "None"
    /\ Len(contacts) > 3
    /\ \E i \in 1..Len(layers) : layers[i].name = "BackBarrier"
    /\ \E i \in 1..Len(layers) : layers[i].composition = None

C11_DopingDirectives ==
    (call.op = "export_sentaurus_structure" /\ raised = "None") =>
       LET script == written.content
           doping == SelectSeq(script, LAMBDA r : r.kind = "doping")
           doped == {i \in 1..Len(layers) : layers[i].doping_concentration > 0}
       IN /\ Len(doping) = Cardinality(doped)
          /\ \A k \in 1..Len(doping) : doping[k].index + 1 \in doped
          /\ \A i \in doped :
                /\ Cardinality({k \in 1..Len(doping) : doping[k].index = i - 1}) = 1
                /\ \A k \in 1..Len(doping) :
                      doping[k].index = i - 1 =>
                         /\ doping[k].name = layers[i].name
                         /\ doping[k].doping_type = "donor"
                               <=> layers[i].doping_type = "n"
                         /\ doping[k].doping_type = "acceptor"
                               <=> layers[i].doping_type # "n"
          /\ \A p, q \in 1..Len(script) :
                /\ (script[p].kind = "region" /\ script[q].kind = "doping") => p < q
                /\ (script[p].kind = "doping" /\ script[q].kind = "contact") => p < q

\* The export has just completed for a stack with an undoped layer, an
\* n-doped layer, a p-doped layer and a doped layer without doping_type,
\* and the script holds regions, doping directives and contacts.
C11_Witness ==
    /\ call.op = "export_sentaurus_structure"
    /\ raised = "None"
    /\ \E i \in 1..Len(layers) : layers[i].doping_concentration = 0
    /\ \E i \in 1..Len(layers) :
          layers[i].doping_concentration > 0 /\ layers[i].doping_type = "n"
    /\ \E i \in 1..Len(layers) :
          layers[i].doping_concentration > 0 /\ layers[i].doping_type = "p"
    /\ \E i \in 1..Len(layers) :
          layers[i].doping_concentration > 0 /\ layers[i].doping_type = "None"
    /\ \E p, q, r \in 1..Len(written.content) :
          /\ written.content[p].kind = "region"
          /\ written.content[q].kind = "doping"
          /\ written.content[q].doping_type = "acceptor"
          /\ written.content[r].kind = "contact"

(* C12.  Either export leaves the layer sequence, the contact sequence,   *)
(* the dimension mapping and substrate_type as they were, whether it       *)
(* completes or the file system fails; when the file system fails, the     *)
(* caller sees exactly the error the file system raised, and a file that   *)
(* was opened has been closed by then.                                     *)
C12_ExportLeavesModel ==
    [][ call'.op \in {"export_sentaurus_structure", "export_python_mesh"} =>
           /\ layers' = layers
           /\ contacts' = contacts
           /\ device_dimensions' = device_dimensions
           /\ substrate_type' = substrate_type
           /\ call'.io = "ok" => raised' = "None"
           /\ call'.io # "ok" =>
                 /\ raised' # "None"
                 /\ raised' = io_error(call'.io)
           /\ written' # NoFile => written'.closed
      ]_vars

\* An export of a stack that has grown past the default structure has just
\* failed in a write: the error is with the caller and the truncated file
\* is closed.
C12_Witness ==
    /\ call.op \in {"export_sentaurus_structure", "export_python_mesh"}
    /\ call.io = "write_fails"
    /\ raised = "OSError"
    /\ written.kind = "partial"
    /\ written.closed
    /\ Len(layers) > Len(_build_default_structure(substrate_type))

====
